---- MODULE Spec2Model ----
(***************************************************************************)
(* State-machine model of the Comet Blue update coordinators:              *)
(*   custom_components/eurotronic_cometblue/coordinator.py  (retrying)     *)
(*   custom_components/cometblue/coordinator.py             (single shot)  *)
(* One coordinator instance is modelled; `variant` says which of the two   *)
(* classes it is an instance of.  Every await of the code is one step, the *)
(* Device Session (AsyncCometBlue) is the nondeterministic environment.    *)
(***************************************************************************)
EXTENDS Integers, Sequences, FiniteSets, TLC

VARIABLES
    variant,                \* which coordinator.py the instance comes from
    data,                   \* self.data, the snapshot (dict field -> value)
    failed_update_count,    \* self.failed_update_count
    address_present,        \* bluetooth.async_address_present(...)
    held,                   \* the device is inside an `async with` scope
    connected,              \* self.device.connected
    ppc,                    \* position of _async_update_data
    poll_retry_count,       \* its local retry_count
    retrieved_temperatures, \* its local retrieved_temperatures
    battery,                \* its local battery
    holiday,                \* its local holiday
    poll_data,              \* its local data
    pexc,                   \* exception leaving the poll's `async with`
    presult,                \* how _async_update_data ended
    cpc,                    \* position of send_command
    cmd_retry_count,        \* its local retry_count
    cexc,                   \* exception leaving the command's `async with`
    cret,                   \* value the device operation returned
    cresult,                \* how send_command ended
    script,                 \* -1: free device; k: the mandatory operation
                            \*     fails exactly k times, then all succeeds
    fails_left,             \* failures the script still has to deliver
    avail_read,             \* a listener read `available` and neither
                            \*     the count nor the presence changed since
    avail_result,           \* the value it read
    \* history of the running invocation, read by the properties only
    poll_connects,          \* connection attempts of the poll
    poll_did_read,          \* the poll issued a read on the device
    count_before,           \* failed_update_count when the poll started
    prev_data,              \* self.data when the poll started
    swallowed,              \* an optional read's error was swallowed
    resumed,                \* ... and the poll went on to another attempt
    nc_at,                  \* attempt that found connected = False, or 0
    opt_errs,               \* timeout/transport errors of optional reads
    fatal_at,               \* attempt an unclassified error ended, or 0
    cancelled,              \* the poll's task was cancelled
    cb_err,                 \* exception that left the cometblue poll's try
    consec_failed,          \* polls in a row that raised UpdateFailed
    cmd_connects,           \* connection attempts of the command
    cmd_count_before,       \* failed_update_count when the command started
    cmd_nc_at,              \* attempt that found connected = False, or 0
    cmd_invoked_at,         \* attempt of the last device-operation call
    cmd_first_err,          \* what the operation raised on attempt 1
    cmd_last_err            \* what the operation raised last

vars == <<variant, data, failed_update_count, address_present, held,
          connected, ppc, poll_retry_count, retrieved_temperatures, battery,
          holiday, poll_data, pexc, presult, cpc, cmd_retry_count, cexc, cret, cresult,
          script, fails_left, avail_read, avail_result, poll_connects,
          poll_did_read,
          count_before, prev_data, swallowed, resumed, nc_at,
          opt_errs, fatal_at, cancelled, cb_err, consec_failed,
          cmd_connects, cmd_count_before, cmd_nc_at, cmd_invoked_at,
          cmd_first_err, cmd_last_err>>

availVars == <<avail_read, avail_result>>
pollVars == <<ppc, poll_retry_count, retrieved_temperatures, battery,
              holiday, poll_data, pexc, presult>>
pollHist == <<poll_connects, poll_did_read, count_before, prev_data,
              swallowed, resumed, nc_at, opt_errs, fatal_at, cancelled>>
cbHist   == <<cb_err, consec_failed>>
cmdVars  == <<cpc, cmd_retry_count, cexc, cret, cresult>>
cmdHist  == <<cmd_connects, cmd_count_before, cmd_nc_at, cmd_invoked_at,
              cmd_first_err, cmd_last_err>>

----------------------------------------------------------------------------
(* Bounds of the model                                                     *)

MaxVal      == 2    \* truthy values a read can deliver are 1..MaxVal
MaxK        == 5    \* scripted failure counts are 0..MaxK
MaxConnects == 4    \* poll_connects saturates here
MaxCount    == 4    \* polls start only while failed_update_count is below

----------------------------------------------------------------------------
(* Constants of the program                                                *)

RETRY_COUNT == 3

EUROTRONIC == "eurotronic_cometblue"
COMETBLUE  == "cometblue"

\* const.py is not among the sources; one field stands for its list
CONF_ALL_TEMPERATURES == {"targetTemp"}

Fields == {"battery", "holiday"} \cup CONF_ALL_TEMPERATURES

----------------------------------------------------------------------------
(* Python values.  None is -1, 0 stands for every falsy value (0, 0.0, {}) *)
(* and 1..MaxVal are the truthy ones.                                      *)

None == 0 - 1

Values == {None} \cup (0..MaxVal)

Truthy(v) == v > 0

\* a or b
OrElse(a, b) == IF Truthy(a) THEN a ELSE b

\* {}
EmptyDict == [f \in {} |-> None]

\* d.get(f)
Get(d, f) == IF f \in DOMAIN d THEN d[f] ELSE None

Min(a, b) == IF a < b THEN a ELSE b

Max(a, b) == IF a > b THEN a ELSE b

----------------------------------------------------------------------------
(* The Device Session: what a call on the device can do                    *)

NoTemperatures == [k \in CONF_ALL_TEMPERATURES |-> None]

TempReadings == [CONF_ALL_TEMPERATURES -> Values]

BatteryReadings == 0..MaxVal

HolidayReadings == 0..MaxVal

OpResults == {None, 1}

Retryable == {"InvalidByteValueError", "TimeoutError", "BleakError"}

ReadErrors == Retryable \cup {"RuntimeError"}

OpErrors == Retryable \cup {"ValueError", "RuntimeError"}

ConnectErrors == {"TimeoutError", "BleakError"}

Scripted == script >= 0

\* errors the mandatory operation may raise now
MandatoryErrors(free) ==
    IF Scripted THEN (IF fails_left > 0 THEN Retryable ELSE {}) ELSE free

\* may the mandatory operation succeed now
MandatoryMaySucceed == Scripted => fails_left = 0

NoResult == [kind |-> "none", cause |-> "none", value |-> EmptyDict]

Returned(d) == [kind |-> "return", cause |-> "none", value |-> d]

Raised(k, e) == [kind |-> k, cause |-> e, value |-> EmptyDict]

CmdNoResult == [kind |-> "none", cause |-> "none", value |-> None]

CmdReturned(v) == [kind |-> "return", cause |-> "none", value |-> v]

CmdRaised(k, e) == [kind |-> k, cause |-> e, value |-> None]

----------------------------------------------------------------------------
(* __aexit__ of `async with self.device`: the scope is left, whatever      *)
(* exception is passing through it.                                        *)

ReleaseUnlessRaising(exc) == exc # "none"

Release(exc) == FALSE

----------------------------------------------------------------------------
(* CometBlueBluetoothEntity.available                                      *)

availableOffByOne == failed_update_count <= RETRY_COUNT /\ address_present

available == failed_update_count < RETRY_COUNT /\ address_present

----------------------------------------------------------------------------
Init ==
    /\ variant \in {EUROTRONIC, COMETBLUE}
    /\ data = EmptyDict
    /\ failed_update_count = 0
    /\ address_present \in BOOLEAN
    /\ held = FALSE
    /\ connected = FALSE
    /\ ppc = "idle"
    /\ poll_retry_count = 0
    /\ retrieved_temperatures = NoTemperatures
    /\ battery = 0
    /\ holiday = 0
    /\ poll_data = EmptyDict
    /\ pexc = "none"
    /\ presult = NoResult
    /\ cpc = "idle"
    /\ cmd_retry_count = 0
    /\ cexc = "none"
    /\ cret = None
    /\ cresult = CmdNoResult
    /\ script = -1
    /\ fails_left = 0
    /\ avail_read = FALSE
    /\ avail_result = FALSE
    /\ poll_connects = 0
    /\ poll_did_read = FALSE
    /\ count_before = 0
    /\ prev_data = EmptyDict
    /\ swallowed = FALSE
    /\ resumed = FALSE
    /\ nc_at = 0
    /\ cmd_connects = 0
    /\ cmd_count_before = 0
    /\ cmd_nc_at = 0
    /\ cmd_invoked_at = 0
    /\ opt_errs = 0
    /\ fatal_at = 0
    /\ cancelled = FALSE
    /\ cb_err = "none"
    /\ consec_failed = 0
    /\ cmd_first_err = "none"
    /\ cmd_last_err = "none"

----------------------------------------------------------------------------
(* The framework around the coordinator                                    *)

\* what is kept of the last read of `available` when the count becomes n
\* and the presence p
Observed(n, p) ==
    IF avail_read /\ n = failed_update_count /\ p = address_present
    THEN <<TRUE, avail_result>>
    ELSE <<FALSE, FALSE>>

\* bluetooth.async_address_present changes with the advertisements seen
PresenceChange ==
    /\ address_present' = ~address_present
    /\ avail_read' = FALSE
    /\ avail_result' = FALSE
    /\ UNCHANGED <<variant, data, failed_update_count, held, connected,
                   script, fails_left>>
    /\ UNCHANGED <<pollVars, pollHist, cmdVars, cmdHist>>
    /\ UNCHANGED cbHist

\* a listener reads entity.available
EvalAvailable ==
    /\ avail_read' = TRUE
    /\ avail_result' = available
    /\ UNCHANGED <<variant, data, failed_update_count, address_present, held,
                   connected, script, fails_left>>
    /\ UNCHANGED <<pollVars, pollHist, cmdVars, cmdHist>>
    /\ UNCHANGED cbHist

----------------------------------------------------------------------------
(* eurotronic_cometblue: _async_update_data                                *)

\* the dict built after the loop: fresh value if truthy, else the stored one
PollMerge(old, b, h, t) ==
    [f \in Fields |->
        IF f = "battery" THEN OrElse(b, Get(old, "battery"))
        ELSE IF f = "holiday" THEN OrElse(h, Get(old, "holiday"))
        ELSE OrElse(Get(t, f), Get(old, f))]

PollOnErrorCancelMerges(e, rc) ==
    IF e = "CancelledError"
    THEN [rc |-> rc, pc |-> "done",
          result |-> Returned(PollMerge(data, battery, holiday,
                                        retrieved_temperatures))]
    ELSE IF e \in Retryable /\ rc + 1 < RETRY_COUNT
    THEN [rc |-> rc + 1, pc |-> "loop", result |-> NoResult]
    ELSE [rc |-> IF e \in Retryable THEN rc + 1 ELSE rc, pc |-> "done",
          result |-> Raised("UpdateFailed", e)]

\* the handlers of the poll's try statement, for exception e leaving the
\* `async with` block while the local retry_count is rc
PollOnErrorRetriesAll(e, rc) ==
    IF rc + 1 >= RETRY_COUNT
    THEN [rc |-> rc + 1, pc |-> "done", result |-> Raised("UpdateFailed", e)]
    ELSE [rc |-> rc + 1, pc |-> "loop", result |-> NoResult]

PollOnError(e, rc) ==
    IF e \in Retryable
    THEN IF rc + 1 >= RETRY_COUNT
         THEN [rc |-> rc + 1, pc |-> "done",
               result |-> Raised("UpdateFailed", e)]
         ELSE [rc |-> rc + 1, pc |-> "loop", result |-> NoResult]
    ELSE IF e = "CancelledError"      \* a BaseException: no clause matches
    THEN [rc |-> rc, pc |-> "done", result |-> Raised("CancelledError", e)]
    ELSE [rc |-> rc, pc |-> "done", result |-> Raised("UpdateFailed", e)]

\* the scheduler calls _async_update_data; the locals are initialised.
\* Under Spec invocations are explored one at a time: one starts only when
\* none is in flight (ConcSpec below lets a poll and a command overlap).
PollStart ==
    /\ variant = EUROTRONIC
    /\ ppc = "idle" /\ cpc = "idle"
    /\ \E k \in (0 - 1)..MaxK :
          /\ script' = k
          /\ fails_left' = Max(k, 0)
    /\ ppc' = "loop"
    /\ poll_retry_count' = 0
    /\ retrieved_temperatures' = NoTemperatures
    /\ battery' = 0
    /\ holiday' = 0
    /\ poll_data' = EmptyDict
    /\ pexc' = "none"
    /\ presult' = NoResult
    /\ poll_connects' = 0
    /\ poll_did_read' = FALSE
    /\ count_before' = failed_update_count
    /\ prev_data' = data
    /\ swallowed' = FALSE
    /\ resumed' = FALSE
    /\ nc_at' = 0
    /\ UNCHANGED <<variant, data, failed_update_count, address_present, held,
                   connected, availVars>>
    /\ UNCHANGED <<cmdVars, cmdHist>>
    /\ opt_errs' = 0
    /\ fatal_at' = 0
    /\ cancelled' = FALSE
    /\ UNCHANGED cbHist

\* while retry_count < RETRY_COUNT: ... ; after the loop, merge and return
PollWhile ==
    /\ variant = EUROTRONIC
    /\ ppc = "loop"
    /\ IF poll_retry_count < RETRY_COUNT
       THEN /\ ppc' = "enter"
            /\ UNCHANGED presult
       ELSE /\ ppc' = "done"
            /\ presult' = Returned(PollMerge(data, battery, holiday,
                                             retrieved_temperatures))
    /\ UNCHANGED <<variant, data, failed_update_count, address_present, held,
                   connected, script, fails_left, availVars,
                   poll_retry_count, retrieved_temperatures, battery,
                   holiday, pexc>>
    /\ poll_data' = IF ppc' = "done" THEN presult'.value ELSE poll_data
    /\ UNCHANGED <<pollHist, cmdVars, cmdHist>>
    /\ UNCHANGED cbHist

\* async with self.device: __aenter__ connects; then the connected test
PollEnter ==
    /\ variant = EUROTRONIC
    /\ ppc = "enter"
    /\ poll_connects' = Min(poll_connects + 1, MaxConnects)
    /\ resumed' = (resumed \/ swallowed)
    /\ \/ /\ held' = TRUE                 \* connected
          /\ connected' = TRUE
          /\ ppc' = "temp"
          /\ UNCHANGED <<pexc, nc_at>>
       \/ /\ ~Scripted                    \* entered, but not connected
          /\ held' = TRUE
          /\ connected' = FALSE
          /\ pexc' = "ConfigEntryNotReady"
          /\ ppc' = "exit"
          /\ nc_at' = IF nc_at = 0 THEN poll_connects' ELSE nc_at
       \/ /\ ~Scripted                    \* connecting raised
          /\ \E e \in ConnectErrors : pexc' = e
          /\ ppc' = "except"
          /\ UNCHANGED <<held, connected, nc_at>>
    /\ UNCHANGED <<variant, data, failed_update_count, address_present,
                   script, fails_left, availVars, poll_retry_count,
                   retrieved_temperatures, battery, holiday, poll_data,
                   presult, poll_did_read, count_before, prev_data,
                   swallowed>>
    /\ UNCHANGED <<cmdVars, cmdHist>>
    /\ UNCHANGED <<opt_errs, fatal_at>>
    /\ UNCHANGED cancelled
    /\ UNCHANGED cbHist

\* retrieved_temperatures = await self.device.get_temperature_async()
PollTemperature ==
    /\ variant = EUROTRONIC
    /\ ppc = "temp"
    /\ poll_did_read' = TRUE
    /\ \/ /\ MandatoryMaySucceed
          /\ \E t \in TempReadings : retrieved_temperatures' = t
          /\ ppc' = "battery"
          /\ UNCHANGED <<pexc, fails_left>>
       \/ /\ \E e \in MandatoryErrors(ReadErrors) : pexc' = e
          /\ fails_left' = Max(fails_left - 1, 0)
          /\ ppc' = "exit"
          /\ UNCHANGED retrieved_temperatures
    /\ UNCHANGED <<variant, data, failed_update_count, address_present, held,
                   connected, script, availVars, poll_retry_count,
                   battery, holiday, poll_data, presult, poll_connects,
                   count_before, prev_data, swallowed, resumed, nc_at>>
    /\ UNCHANGED <<cmdVars, cmdHist>>
    /\ UNCHANGED <<opt_errs, fatal_at>>
    /\ UNCHANGED cancelled
    /\ UNCHANGED cbHist

OptionalSwallowsConnectErrors(e) ==
    e \in {"InvalidByteValueError"} \cup ConnectErrors

\* what the inner try does with exception e of an optional read
OptionalSwallows(e) == e = "InvalidByteValueError"

\* an optional read raised e: swallowed by the inner handler, or passed on
PollOptionalRaise(e) ==
    /\ ~Scripted
    /\ ppc' = "exit"
    /\ opt_errs' = IF e \in ConnectErrors
                   THEN Min(opt_errs + 1, MaxConnects) ELSE opt_errs
    /\ IF OptionalSwallows(e)
       THEN /\ UNCHANGED pexc
            /\ swallowed' = TRUE
       ELSE /\ pexc' = e
            /\ UNCHANGED swallowed

\* battery = await self.device.get_battery_async()
PollBattery ==
    /\ variant = EUROTRONIC
    /\ ppc = "battery"
    /\ \/ /\ \E b \in BatteryReadings : battery' = b
          /\ ppc' = "holiday"
          /\ UNCHANGED <<pexc, swallowed, opt_errs>>
       \/ /\ \E e \in ReadErrors : PollOptionalRaise(e)
          /\ UNCHANGED battery
    /\ UNCHANGED <<variant, data, failed_update_count, address_present, held,
                   connected, script, fails_left, availVars,
                   poll_retry_count, retrieved_temperatures, holiday,
                   poll_data, presult, poll_connects, poll_did_read,
                   count_before, prev_data, resumed, nc_at>>
    /\ UNCHANGED <<cmdVars, cmdHist>>
    /\ UNCHANGED fatal_at
    /\ UNCHANGED cancelled
    /\ UNCHANGED cbHist

\* holiday = await self.device.get_holiday_async(1)
PollHoliday ==
    /\ variant = EUROTRONIC
    /\ ppc = "holiday"
    /\ \/ /\ \E h \in HolidayReadings : holiday' = h
          /\ ppc' = "exit"
          /\ UNCHANGED <<pexc, swallowed, opt_errs>>
       \/ /\ \E e \in ReadErrors : PollOptionalRaise(e)
          /\ UNCHANGED holiday
    /\ UNCHANGED <<variant, data, failed_update_count, address_present, held,
                   connected, script, fails_left, availVars,
                   poll_retry_count, retrieved_temperatures, battery,
                   poll_data, presult, poll_connects, poll_did_read,
                   count_before, prev_data, resumed, nc_at>>
    /\ UNCHANGED <<cmdVars, cmdHist>>
    /\ UNCHANGED fatal_at
    /\ UNCHANGED cancelled
    /\ UNCHANGED cbHist

\* the asyncio task running the poll is cancelled while suspended in an await:
\* CancelledError is raised there (in __aenter__ the block is not entered)
PollCancel ==
    /\ variant = EUROTRONIC
    /\ ~Scripted
    /\ ppc \in {"enter", "temp", "battery", "holiday"}
    /\ pexc' = "CancelledError"
    /\ ppc' = IF ppc = "enter" THEN "except" ELSE "exit"
    /\ UNCHANGED <<variant, data, failed_update_count, address_present, held,
                   connected, script, fails_left, availVars,
                   poll_retry_count, retrieved_temperatures, battery,
                   holiday, poll_data, presult>>
    /\ cancelled' = TRUE
    /\ UNCHANGED <<poll_connects, poll_did_read, count_before, prev_data,
                   swallowed, resumed, nc_at, opt_errs, fatal_at>>
    /\ UNCHANGED <<cmdVars, cmdHist>>
    /\ UNCHANGED cbHist

\* the block is left (__aexit__ disconnects), then the except clauses run;
\* at "except" the block was never entered and only the clauses run
PollExit ==
    /\ variant = EUROTRONIC
    /\ ppc \in {"exit", "except"}
    /\ IF ppc = "exit"
       THEN /\ held' = Release(pexc)
            /\ connected' = FALSE
       ELSE UNCHANGED <<held, connected>>
    /\ IF pexc = "none"
       THEN /\ ppc' = "loop"
            /\ UNCHANGED <<poll_retry_count, presult>>
       ELSE LET h == PollOnError(pexc, poll_retry_count)
            IN  /\ ppc' = h.pc
                /\ poll_retry_count' = h.rc
                /\ presult' = h.result
    /\ pexc' = "none"
    /\ UNCHANGED <<variant, data, failed_update_count, address_present,
                   script, fails_left, availVars, retrieved_temperatures,
                   battery, holiday, poll_data>>
    /\ fatal_at' = IF /\ pexc \notin Retryable \cup {"none", "CancelledError"}
                      /\ fatal_at = 0
                   THEN poll_connects ELSE fatal_at
    /\ UNCHANGED <<poll_connects, poll_did_read, count_before, prev_data,
                   swallowed, resumed, nc_at, opt_errs>>
    /\ UNCHANGED <<cmdVars, cmdHist>>
    /\ UNCHANGED cancelled
    /\ UNCHANGED cbHist

\* DataUpdateCoordinator stores what the poll returned; a raise keeps data.
\* The frame of _async_update_data is gone: its locals are forgotten.
PollFinish ==
    /\ ppc = "done"
    /\ data' = IF presult.kind = "return" THEN presult.value ELSE data
    /\ ppc' = "idle"
    /\ poll_retry_count' = 0
    /\ retrieved_temperatures' = NoTemperatures
    /\ battery' = 0
    /\ holiday' = 0
    /\ poll_data' = EmptyDict
    /\ presult' = NoResult
    /\ script' = 0 - 1
    /\ fails_left' = 0
    /\ poll_connects' = 0
    /\ poll_did_read' = FALSE
    /\ count_before' = 0
    /\ prev_data' = EmptyDict
    /\ swallowed' = FALSE
    /\ resumed' = FALSE
    /\ nc_at' = 0
    /\ UNCHANGED <<variant, failed_update_count, address_present, held,
                   connected, availVars, pexc>>
    /\ UNCHANGED <<cmdVars, cmdHist>>
    /\ opt_errs' = 0
    /\ fatal_at' = 0
    /\ cancelled' = FALSE
    /\ cb_err' = "none"
    /\ UNCHANGED consec_failed

----------------------------------------------------------------------------
(* eurotronic_cometblue: send_command                                      *)

\* the handlers of the command's try statement, for exception e leaving
\* the `async with` block while the local retry_count is rc; an exception
\* no clause names leaves send_command as it is
CmdOnErrorRetriesValueError(e, rc) ==
    IF e \in Retryable \cup {"ValueError"}
    THEN IF rc + 1 >= RETRY_COUNT
         THEN [rc |-> rc + 1, pc |-> "done",
               result |-> CmdRaised("HomeAssistantError", e)]
         ELSE [rc |-> rc + 1, pc |-> "loop", result |-> CmdNoResult]
    ELSE [rc |-> rc, pc |-> "done", result |-> CmdRaised(e, "none")]

CmdOnErrorEager(e, rc) ==
    IF e \in Retryable
    THEN IF rc + 1 >= RETRY_COUNT - 1
         THEN [rc |-> rc + 1, pc |-> "done",
               result |-> CmdRaised("HomeAssistantError", e)]
         ELSE [rc |-> rc + 1, pc |-> "loop", result |-> CmdNoResult]
    ELSE IF e = "ValueError"
    THEN [rc |-> rc, pc |-> "done",
          result |-> CmdRaised("ServiceValidationError", e)]
    ELSE [rc |-> rc, pc |-> "done", result |-> CmdRaised(e, "none")]

CmdOnErrorWrapsTheRest(e, rc) ==
    IF e \in Retryable
    THEN IF rc + 1 >= RETRY_COUNT
         THEN [rc |-> rc + 1, pc |-> "done",
               result |-> CmdRaised("HomeAssistantError", e)]
         ELSE [rc |-> rc + 1, pc |-> "loop", result |-> CmdNoResult]
    ELSE IF e = "ValueError"
    THEN [rc |-> rc, pc |-> "done",
          result |-> CmdRaised("ServiceValidationError", e)]
    ELSE [rc |-> rc, pc |-> "done",
          result |-> CmdRaised("HomeAssistantError", e)]

CmdOnError(e, rc) ==
    IF e \in Retryable
    THEN IF rc + 1 >= RETRY_COUNT
         THEN [rc |-> rc + 1, pc |-> "done",
               result |-> CmdRaised("HomeAssistantError", e)]
         ELSE [rc |-> rc + 1, pc |-> "loop", result |-> CmdNoResult]
    ELSE IF e = "ValueError"
    THEN [rc |-> rc, pc |-> "done",
          result |-> CmdRaised("ServiceValidationError", e)]
    ELSE [rc |-> rc, pc |-> "done", result |-> CmdRaised(e, "none")]

\* an entity calls send_command(function, payload, caller_entity_id)
CmdStart ==
    /\ variant = EUROTRONIC
    /\ ppc = "idle" /\ cpc = "idle"
    /\ \E k \in (0 - 1)..MaxK :
          /\ script' = k
          /\ fails_left' = Max(k, 0)
    /\ cpc' = "loop"
    /\ cmd_retry_count' = 0
    /\ cexc' = "none"
    /\ cret' = None
    /\ cresult' = CmdNoResult
    /\ cmd_connects' = 0
    /\ cmd_count_before' = failed_update_count
    /\ cmd_nc_at' = 0
    /\ cmd_invoked_at' = 0
    /\ cmd_first_err' = "none"
    /\ cmd_last_err' = "none"
    /\ UNCHANGED <<variant, data, failed_update_count, address_present, held,
                   connected, availVars>>
    /\ UNCHANGED <<pollVars, pollHist>>
    /\ UNCHANGED cbHist

\* while retry_count < RETRY_COUNT: ... ; falling out of the loop the
\* function ends without a return statement
CmdWhile ==
    /\ variant = EUROTRONIC
    /\ cpc = "loop"
    /\ IF cmd_retry_count < RETRY_COUNT
       THEN /\ cpc' = "enter"
            /\ UNCHANGED cresult
       ELSE /\ cpc' = "done"
            /\ cresult' = CmdReturned(None)
    /\ UNCHANGED <<variant, data, failed_update_count, address_present, held,
                   connected, script, fails_left, availVars,
                   cmd_retry_count, cexc, cret>>
    /\ UNCHANGED <<pollVars, pollHist, cmdHist>>
    /\ UNCHANGED cbHist

\* async with self.device: __aenter__ connects; then the connected test
CmdEnter ==
    /\ variant = EUROTRONIC
    /\ cpc = "enter"
    /\ cmd_connects' = cmd_connects + 1
    /\ \/ /\ held' = TRUE                 \* connected
          /\ connected' = TRUE
          /\ cpc' = "invoke"
          /\ UNCHANGED <<cexc, cmd_nc_at>>
       \/ /\ ~Scripted                    \* entered, but not connected
          /\ held' = TRUE
          /\ connected' = FALSE
          /\ cexc' = "ConfigEntryNotReady"
          /\ cpc' = "exit"
          /\ cmd_nc_at' = cmd_connects'
       \/ /\ ~Scripted                    \* connecting raised
          /\ \E e \in ConnectErrors : cexc' = e
          /\ cpc' = "except"
          /\ UNCHANGED <<held, connected, cmd_nc_at>>
    /\ UNCHANGED <<variant, data, failed_update_count, address_present,
                   script, fails_left, availVars, cmd_retry_count, cret,
                   cresult, cmd_count_before, cmd_invoked_at, cmd_first_err,
                   cmd_last_err>>
    /\ UNCHANGED <<pollVars, pollHist>>
    /\ UNCHANGED cbHist

\* return await getattr(self.device, function)(**payload)
CmdInvoke ==
    /\ variant = EUROTRONIC
    /\ cpc = "invoke"
    /\ cpc' = "exit"
    /\ cmd_invoked_at' = cmd_connects
    /\ \/ /\ MandatoryMaySucceed
          /\ \E v \in OpResults : cret' = v
          /\ UNCHANGED <<cexc, fails_left, cmd_first_err, cmd_last_err>>
       \/ /\ \E e \in MandatoryErrors(OpErrors) :
                /\ cexc' = e
                /\ cmd_last_err' = e
                /\ cmd_first_err' =
                      IF cmd_connects = 1 THEN e ELSE cmd_first_err
          /\ fails_left' = Max(fails_left - 1, 0)
          /\ UNCHANGED cret
    /\ UNCHANGED <<variant, data, failed_update_count, address_present, held,
                   connected, script, availVars, cmd_retry_count, cresult,
                   cmd_connects, cmd_count_before, cmd_nc_at>>
    /\ UNCHANGED <<pollVars, pollHist>>
    /\ UNCHANGED cbHist

\* the block is left (__aexit__ disconnects); then the value is returned or
\* the except clauses run; at "except" the block was never entered
CmdExit ==
    /\ variant = EUROTRONIC
    /\ cpc \in {"exit", "except"}
    /\ IF cpc = "exit"
       THEN /\ held' = Release(cexc)
            /\ connected' = FALSE
       ELSE UNCHANGED <<held, connected>>
    /\ IF cexc = "none"
       THEN /\ cpc' = "done"
            /\ cresult' = CmdReturned(cret)
            /\ UNCHANGED cmd_retry_count
       ELSE LET h == CmdOnError(cexc, cmd_retry_count)
            IN  /\ cpc' = h.pc
                /\ cmd_retry_count' = h.rc
                /\ cresult' = h.result
    /\ cexc' = "none"
    /\ UNCHANGED <<variant, data, failed_update_count, address_present,
                   script, fails_left, availVars, cret>>
    /\ UNCHANGED <<pollVars, pollHist, cmdHist>>
    /\ UNCHANGED cbHist

\* the caller has the result; the frame of send_command is gone
CmdFinish ==
    /\ cpc = "done"
    /\ cpc' = "idle"
    /\ cmd_retry_count' = 0
    /\ cret' = None
    /\ cresult' = CmdNoResult
    /\ script' = 0 - 1
    /\ fails_left' = 0
    /\ cmd_connects' = 0
    /\ cmd_count_before' = 0
    /\ cmd_nc_at' = 0
    /\ cmd_invoked_at' = 0
    /\ cmd_first_err' = "none"
    /\ cmd_last_err' = "none"
    /\ UNCHANGED <<variant, data, failed_update_count, address_present, held,
                   connected, availVars, cexc>>
    /\ UNCHANGED <<pollVars, pollHist>>
    /\ UNCHANGED cbHist

----------------------------------------------------------------------------
(* cometblue: send_command (one attempt, no loop)                          *)

\* what the operation of a command can raise here; InvalidByteValueError is
\* left out: which clause catches it depends on its base class, which the
\* device library defines
CbOpErrors == {"ValueError", "BleakError", "TimeoutError", "RuntimeError"}

\* the except clauses of send_command, for exception e leaving the block
CbCmdOnError(e) ==
    IF e = "ValueError" THEN CmdRaised("ServiceValidationError", e)
    ELSE IF e \in {"BleakError", "TimeoutError"}
    THEN CmdRaised("HomeAssistantError", e)
    ELSE CmdRaised(e, e)

\* a service call invokes send_command
CbCmdStart ==
    /\ variant = COMETBLUE
    /\ ppc = "idle" /\ cpc = "idle"
    /\ cpc' = "enter"
    /\ cmd_retry_count' = 0
    /\ cexc' = "none"
    /\ cret' = None
    /\ cresult' = CmdNoResult
    /\ cmd_connects' = 0
    /\ cmd_count_before' = failed_update_count
    /\ cmd_nc_at' = 0
    /\ cmd_invoked_at' = 0
    /\ cmd_first_err' = "none"
    /\ cmd_last_err' = "none"
    /\ UNCHANGED <<variant, data, failed_update_count, address_present, held,
                   connected, script, fails_left, availVars>>
    /\ UNCHANGED <<pollVars, pollHist, cbHist>>

\* async with self.device: __aenter__ connects; then the connected test
CbCmdEnter ==
    /\ variant = COMETBLUE
    /\ cpc = "enter"
    /\ cmd_connects' = cmd_connects + 1
    /\ \/ /\ held' = TRUE                 \* connected
          /\ connected' = TRUE
          /\ cpc' = "invoke"
          /\ UNCHANGED <<cexc, cmd_nc_at>>
       \/ /\ held' = TRUE                 \* entered, but not connected
          /\ connected' = FALSE
          /\ cexc' = "ConfigEntryNotReady"
          /\ cpc' = "exit"
          /\ cmd_nc_at' = cmd_connects'
       \/ /\ \E e \in ConnectErrors : cexc' = e   \* connecting raised
          /\ cpc' = "except"
          /\ UNCHANGED <<held, connected, cmd_nc_at>>
    /\ UNCHANGED <<variant, data, failed_update_count, address_present,
                   script, fails_left, availVars, cmd_retry_count, cret,
                   cresult, cmd_count_before, cmd_invoked_at, cmd_first_err,
                   cmd_last_err>>
    /\ UNCHANGED <<pollVars, pollHist, cbHist>>

\* result = await getattr(self.device, function)(**payload)
CbCmdInvoke ==
    /\ variant = COMETBLUE
    /\ cpc = "invoke"
    /\ cpc' = "exit"
    /\ cmd_invoked_at' = cmd_connects
    /\ \/ /\ \E v \in OpResults : cret' = v
          /\ UNCHANGED <<cexc, cmd_first_err, cmd_last_err>>
       \/ /\ \E e \in CbOpErrors :
                /\ cexc' = e
                /\ cmd_last_err' = e
                /\ cmd_first_err' = e
          /\ UNCHANGED cret
    /\ UNCHANGED <<variant, data, failed_update_count, address_present, held,
                   connected, script, fails_left, availVars, cmd_retry_count,
                   cresult, cmd_connects, cmd_count_before, cmd_nc_at>>
    /\ UNCHANGED <<pollVars, pollHist, cbHist>>

\* the block is left (__aexit__ disconnects); then an except clause runs,
\* or the function ends: `result` is assigned and no return statement
\* follows, so the call evaluates to None
CbCmdExit ==
    /\ variant = COMETBLUE
    /\ cpc \in {"exit", "except"}
    /\ IF cpc = "exit"
       THEN /\ held' = Release(cexc)
            /\ connected' = FALSE
       ELSE UNCHANGED <<held, connected>>
    /\ cpc' = "done"
    /\ cresult' = IF cexc = "none" THEN CmdReturned(None)
                  ELSE CbCmdOnError(cexc)
    /\ cexc' = "none"
    /\ UNCHANGED <<variant, data, failed_update_count, address_present,
                   script, fails_left, availVars, cmd_retry_count, cret>>
    /\ UNCHANGED <<pollVars, pollHist, cmdHist, cbHist>>

----------------------------------------------------------------------------
(* cometblue: _async_update_data (one attempt, no loop)                    *)

\* the dict built inside the block: battery and holiday as read, each
\* temperature fresh if truthy, else the stored one
CbPollMerge(old, b, h, t) ==
    [f \in Fields |->
        IF f = "battery" THEN b
        ELSE IF f = "holiday" THEN h
        ELSE OrElse(Get(t, f), Get(old, f))]

CbPollOnErrorOneMore(e, n, d) ==
    IF e = "InvalidByteValueError"
    THEN IF n <= RETRY_COUNT /\ DOMAIN d # {}
         THEN [count |-> n + 1, result |-> Returned(d)]
         ELSE [count |-> n, result |-> Raised("UpdateFailed", e)]
    ELSE [count |-> n + 1, result |-> Raised("UpdateFailed", e)]

\* the handlers of the try statement, for exception e leaving the block
\* while failed_update_count is n and self.data is d
CbPollOnError(e, n, d) ==
    IF e = "InvalidByteValueError"
    THEN IF n < RETRY_COUNT /\ DOMAIN d # {}
         THEN [count |-> n + 1, result |-> Returned(d)]
         ELSE [count |-> n, result |-> Raised("UpdateFailed", e)]
    ELSE [count |-> n + 1, result |-> Raised("UpdateFailed", e)]

\* the scheduler calls _async_update_data
CbPollStart ==
    /\ variant = COMETBLUE
    /\ ppc = "idle" /\ cpc = "idle"
    /\ failed_update_count < MaxCount
    /\ ppc' = "enter"
    /\ poll_data' = EmptyDict
    /\ pexc' = "none"
    /\ presult' = NoResult
    /\ poll_connects' = 0
    /\ poll_did_read' = FALSE
    /\ count_before' = failed_update_count
    /\ prev_data' = data
    /\ UNCHANGED <<variant, data, failed_update_count, address_present, held,
                   connected, script, fails_left, availVars,
                   poll_retry_count, retrieved_temperatures, battery,
                   holiday, swallowed, resumed, nc_at>>
    /\ UNCHANGED <<cmdVars, cmdHist>>
    /\ UNCHANGED <<opt_errs, fatal_at>>
    /\ UNCHANGED cancelled
    /\ UNCHANGED cbHist

\* async with self.device: __aenter__ connects; then the connected test
CbPollEnter ==
    /\ variant = COMETBLUE
    /\ ppc = "enter"
    /\ poll_connects' = poll_connects + 1
    /\ \/ /\ held' = TRUE                 \* connected
          /\ connected' = TRUE
          /\ ppc' = "temp"
          /\ UNCHANGED <<pexc, nc_at>>
       \/ /\ held' = TRUE                 \* entered, but not connected
          /\ connected' = FALSE
          /\ pexc' = "ConfigEntryNotReady"
          /\ ppc' = "exit"
          /\ nc_at' = poll_connects'
       \/ /\ \E e \in ConnectErrors : pexc' = e   \* connecting raised
          /\ ppc' = "except"
          /\ UNCHANGED <<held, connected, nc_at>>
    /\ UNCHANGED <<variant, data, failed_update_count, address_present,
                   script, fails_left, availVars, poll_retry_count,
                   retrieved_temperatures, battery, holiday, poll_data,
                   presult, poll_did_read, count_before, prev_data,
                   swallowed, resumed>>
    /\ UNCHANGED <<cmdVars, cmdHist>>
    /\ UNCHANGED <<opt_errs, fatal_at>>
    /\ UNCHANGED cancelled
    /\ UNCHANGED cbHist

\* one of the three reads raised e
CbPollRaise(e) ==
    /\ pexc' = e
    /\ ppc' = "exit"

\* retrieved_temperatures = await self.device.get_temperature_async()
CbPollTemperature ==
    /\ variant = COMETBLUE
    /\ ppc = "temp"
    /\ poll_did_read' = TRUE
    /\ \/ /\ \E t \in TempReadings : retrieved_temperatures' = t
          /\ ppc' = "battery"
          /\ UNCHANGED pexc
       \/ /\ \E e \in ReadErrors : CbPollRaise(e)
          /\ UNCHANGED retrieved_temperatures
    /\ UNCHANGED <<variant, data, failed_update_count, address_present, held,
                   connected, script, fails_left, availVars,
                   poll_retry_count, battery, holiday, poll_data, presult,
                   poll_connects, count_before, prev_data, swallowed,
                   resumed, nc_at>>
    /\ UNCHANGED <<cmdVars, cmdHist>>
    /\ UNCHANGED <<opt_errs, fatal_at>>
    /\ UNCHANGED cancelled
    /\ UNCHANGED cbHist

\* "battery": await self.device.get_battery_async()
CbPollBattery ==
    /\ variant = COMETBLUE
    /\ ppc = "battery"
    /\ \/ /\ \E b \in BatteryReadings : battery' = b
          /\ ppc' = "holiday"
          /\ UNCHANGED pexc
       \/ /\ \E e \in ReadErrors : CbPollRaise(e)
          /\ UNCHANGED battery
    /\ UNCHANGED <<variant, data, failed_update_count, address_present, held,
                   connected, script, fails_left, availVars,
                   poll_retry_count, retrieved_temperatures, holiday,
                   poll_data, presult>>
    /\ UNCHANGED <<pollHist, cmdVars, cmdHist>>
    /\ UNCHANGED cbHist

\* "holiday": await self.device.get_holiday_async(1); then the dict is
\* complete and failed_update_count is reset, still inside the block
CbPollHoliday ==
    /\ variant = COMETBLUE
    /\ ppc = "holiday"
    /\ ppc' = "exit"
    /\ \/ /\ \E h \in HolidayReadings :
                /\ holiday' = h
                /\ poll_data' = CbPollMerge(data, battery, h,
                                            retrieved_temperatures)
          /\ failed_update_count' = 0
          /\ UNCHANGED pexc
       \/ /\ \E e \in ReadErrors : pexc' = e
          /\ UNCHANGED <<holiday, poll_data, failed_update_count>>
    /\ LET o == Observed(failed_update_count', address_present)
       IN  avail_read' = o[1] /\ avail_result' = o[2]
    /\ UNCHANGED <<variant, data, address_present, held, connected, script,
                   fails_left, poll_retry_count, retrieved_temperatures,
                   battery, presult>>
    /\ UNCHANGED <<pollHist, cmdVars, cmdHist>>
    /\ UNCHANGED cbHist

\* the block is left (__aexit__ disconnects); then the except clauses run
\* or the built dict is returned
CbPollExit ==
    /\ variant = COMETBLUE
    /\ ppc \in {"exit", "except"}
    /\ IF ppc = "exit"
       THEN /\ held' = Release(pexc)
            /\ connected' = FALSE
       ELSE UNCHANGED <<held, connected>>
    /\ ppc' = "done"
    /\ IF pexc = "none"
       THEN /\ presult' = Returned(poll_data)
            /\ UNCHANGED failed_update_count
       ELSE LET h == CbPollOnError(pexc, failed_update_count, data)
            IN  /\ failed_update_count' = h.count
                /\ presult' = h.result
    /\ pexc' = "none"
    /\ LET o == Observed(failed_update_count', address_present)
       IN  avail_read' = o[1] /\ avail_result' = o[2]
    /\ UNCHANGED <<variant, data, address_present, script, fails_left,
                   poll_retry_count, retrieved_temperatures, battery,
                   holiday, poll_data>>
    /\ UNCHANGED <<pollHist, cmdVars, cmdHist>>
    /\ cb_err' = pexc
    /\ consec_failed' = IF presult'.kind = "UpdateFailed"
                        THEN Min(consec_failed + 1, RETRY_COUNT) ELSE 0

----------------------------------------------------------------------------
Next ==
    \/ PresenceChange
    \/ EvalAvailable
    \/ PollStart
    \/ PollWhile
    \/ PollEnter
    \/ PollTemperature
    \/ PollBattery
    \/ PollHoliday
    \/ PollCancel
    \/ PollExit
    \/ PollFinish
    \/ CmdStart
    \/ CmdWhile
    \/ CmdEnter
    \/ CmdInvoke
    \/ CmdExit
    \/ CmdFinish
    \/ CbCmdStart
    \/ CbCmdEnter
    \/ CbCmdInvoke
    \/ CbCmdExit
    \/ CbPollStart
    \/ CbPollEnter
    \/ CbPollTemperature
    \/ CbPollBattery
    \/ CbPollHoliday
    \/ CbPollExit

Spec == Init /\ [][Next]_vars

\* the awaits of a running coroutine complete (the device's operations time
\* out), so a started poll or command keeps taking steps
PollStep ==
    \/ PollWhile \/ PollEnter \/ PollTemperature \/ PollBattery
    \/ PollHoliday \/ PollExit \/ PollFinish
    \/ CbPollEnter \/ CbPollTemperature \/ CbPollBattery \/ CbPollHoliday
    \/ CbPollExit

CmdStep ==
    \/ CmdWhile \/ CmdEnter \/ CmdInvoke \/ CmdExit \/ CmdFinish
    \/ CbCmdEnter \/ CbCmdInvoke \/ CbCmdExit

FairSpec == Spec /\ WF_vars(PollStep) /\ WF_vars(CmdStep)

----------------------------------------------------------------------------
(* eurotronic_cometblue: a poll and a command of one coordinator overlap.  *)
(* Both are coroutines on one event loop; neither method takes a lock, so  *)
(* one can be started while the other is suspended in an await.            *)

\* _async_update_data is called while send_command is suspended
ConcPollStart ==
    /\ variant = EUROTRONIC
    /\ ppc = "idle" /\ cpc \in {"enter", "invoke"}
    /\ ~Scripted
    /\ ppc' = "loop"
    /\ poll_retry_count' = 0
    /\ retrieved_temperatures' = NoTemperatures
    /\ battery' = 0
    /\ holiday' = 0
    /\ poll_data' = EmptyDict
    /\ pexc' = "none"
    /\ presult' = NoResult
    /\ poll_connects' = 0
    /\ poll_did_read' = FALSE
    /\ count_before' = failed_update_count
    /\ prev_data' = data
    /\ swallowed' = FALSE
    /\ resumed' = FALSE
    /\ nc_at' = 0
    /\ opt_errs' = 0
    /\ fatal_at' = 0
    /\ cancelled' = FALSE
    /\ UNCHANGED <<variant, data, failed_update_count, address_present, held,
                   connected, script, fails_left, availVars>>
    /\ UNCHANGED <<cmdVars, cmdHist, cbHist>>

\* send_command is called while _async_update_data is suspended
ConcCmdStart ==
    /\ variant = EUROTRONIC
    /\ cpc = "idle" /\ ppc \in {"enter", "temp", "battery", "holiday"}
    /\ ~Scripted
    /\ cpc' = "loop"
    /\ cmd_retry_count' = 0
    /\ cexc' = "none"
    /\ cret' = None
    /\ cresult' = CmdNoResult
    /\ cmd_connects' = 0
    /\ cmd_count_before' = failed_update_count
    /\ cmd_nc_at' = 0
    /\ cmd_invoked_at' = 0
    /\ cmd_first_err' = "none"
    /\ cmd_last_err' = "none"
    /\ UNCHANGED <<variant, data, failed_update_count, address_present, held,
                   connected, script, fails_left, availVars>>
    /\ UNCHANGED <<pollVars, pollHist, cbHist>>

\* the overlapping invocations are followed for this many connection
\* attempts each
MaxConcAttempts == 2

ConcInit == Init /\ variant = EUROTRONIC

ConcNext ==
    \/ PollStart
    \/ ConcPollStart
    \/ PollWhile
    \/ /\ poll_connects < MaxConcAttempts
       /\ PollEnter
    \/ PollTemperature
    \/ PollBattery
    \/ PollHoliday
    \/ PollCancel
    \/ PollExit
    \/ PollFinish
    \/ CmdStart
    \/ ConcCmdStart
    \/ CmdWhile
    \/ /\ cmd_connects < MaxConcAttempts
       /\ CmdEnter
    \/ CmdInvoke
    \/ CmdExit
    \/ CmdFinish

ConcSpec == ConcInit /\ [][ConcNext]_vars

----------------------------------------------------------------------------
(* Properties                                                              *)

Euro == variant = EUROTRONIC

\* a poll of the retrying coordinator on a scripted device has just started
ScriptedPollStarted ==
    Euro /\ Scripted /\ ppc = "loop" /\ poll_connects = 0

\* C1: a poll whose temperature read fails exactly k times and then
\* succeeds returns a snapshot iff k < 3 and raises UpdateFailed iff k >= 3.
C1_PollOutcomeByFailures ==
    ScriptedPollStarted ~>
        /\ ppc = "done"
        /\ presult.kind = "return" <=> script < 3
        /\ presult.kind = "UpdateFailed" <=> script >= 3

\* C2: during such a poll the scoped connection is entered at most
\* min(k+1, 3) times, and exactly that often when the poll has ended.
C2_PollConnectsMin ==
    (Euro /\ Scripted /\ ppc # "idle") =>
        /\ poll_connects <= Min(script + 1, 3)
        /\ ppc = "done" => poll_connects = Min(script + 1, 3)

\* C3: once a malformed-byte error of the battery or holiday read was
\* swallowed (the temperatures were read), the poll makes no further
\* attempt, does not raise UpdateFailed, and ends returning a snapshot whose
\* battery and holiday are those of the snapshot before the poll.
C3_OptionalErrorIsolated ==
    (Euro /\ swallowed) =>
        /\ ~resumed
        /\ presult.kind # "UpdateFailed"
        /\ ppc = "done" =>
              /\ presult.kind = "return"
              /\ Get(presult.value, "battery") = Get(prev_data, "battery")
              /\ Get(presult.value, "holiday") = Get(prev_data, "holiday")

\* C4: a poll that raised UpdateFailed leaves failed_update_count one above
\* its value before the poll; a poll that returned leaves it 0.
C4_CounterFollowsOutcome ==
    (Euro /\ ppc = "done") =>
        /\ presult.kind = "UpdateFailed" =>
              failed_update_count = count_before + 1
        /\ presult.kind = "return" => failed_update_count = 0

\* C5: available is false exactly when failed_update_count >= 3 or the
\* device is not present; reading it yields that value and changes neither
\* the counter nor the snapshot.
C5_AvailableThreshold ==
    /\ [](available <=> ~(failed_update_count >= 3 \/ ~address_present))
    /\ [](avail_read =>
            (avail_result <=>
                ~(failed_update_count >= 3 \/ ~address_present)))
    /\ [][EvalAvailable => UNCHANGED <<failed_update_count, data>>]_vars

C5_Witness ==
    /\ avail_read /\ ~avail_result
    /\ failed_update_count = 3 /\ address_present

\* C6: a poll of a device that answers every read ends, and the snapshot it
\* returns holds for every field the fresh value if that is non-empty and
\* the value stored before the poll otherwise.
C6_MergeKeepsOrReplaces ==
    (ScriptedPollStarted /\ script = 0) ~>
        /\ ppc = "done"
        /\ presult.kind = "return"
        /\ Get(presult.value, "battery") =
              OrElse(battery, Get(prev_data, "battery"))
        /\ Get(presult.value, "holiday") =
              OrElse(holiday, Get(prev_data, "holiday"))
        /\ \A f \in CONF_ALL_TEMPERATURES :
              Get(presult.value, f) =
                 OrElse(Get(retrieved_temperatures, f), Get(prev_data, f))

\* C7: a command whose operation raised ValueError on the first attempt
\* makes no second connection attempt, ends with ServiceValidationError,
\* and leaves failed_update_count as it was.
C7_ValidationNoRetry ==
    (Euro /\ cmd_first_err = "ValueError") =>
        /\ cmd_connects = 1
        /\ cpc \in {"exit", "done"}
        /\ failed_update_count = cmd_count_before
        /\ cpc = "done" =>
              /\ cresult.kind = "ServiceValidationError"
              /\ cresult.cause = "ValueError"

C7_Witness ==
    /\ Euro /\ cpc = "done" /\ cmd_first_err = "ValueError"
    /\ cresult.kind = "ServiceValidationError" /\ cmd_connects = 1

\* C8: a command whose operation fails with a retryable error exactly k
\* times and then succeeds never makes more than min(k+1, 3) connection
\* attempts; when it has ended it made exactly that many, returned the
\* operation's result iff k < 3 and otherwise raised HomeAssistantError
\* with the last error as its cause.
C8_CommandRetryBudget ==
    (Euro /\ Scripted /\ cpc # "idle") =>
        /\ cmd_connects <= Min(script + 1, 3)
        /\ cpc = "done" =>
              /\ cmd_connects = Min(script + 1, 3)
              /\ cresult.kind = "return" <=> script < 3
              /\ cresult.kind = "return" => cresult.value = cret
              /\ script >= 3 =>
                    /\ cresult.kind = "HomeAssistantError"
                    /\ cresult.cause = cmd_last_err
                    /\ cmd_last_err \in Retryable

C8_Witness ==
    /\ Euro /\ script = 2 /\ cpc = "done"
    /\ cresult.kind = "return" /\ cresult.value = 1 /\ cmd_connects = 3

\* C9: the session is held only between entering an `async with` block and
\* leaving it: never at the loop head or before an attempt, and never once
\* the poll or the command has returned or raised.
C9_SessionReleased ==
    (Euro /\ held) =>
        \/ ppc \in {"temp", "battery", "holiday", "exit"}
        \/ cpc \in {"invoke", "exit"}

C9_Witness ==
    /\ Euro /\ cpc = "done" /\ cmd_connects = 2
    /\ cresult.kind = "ServiceValidationError" /\ ~held

\* C10: a poll whose first attempt found the session not connected ends
\* with ConfigEntryNotReady, not UpdateFailed, after one connection attempt
\* and no read.
C10_NotReadySurfaced ==
    (Euro /\ ppc = "done" /\ nc_at = 1) =>
        /\ presult.kind = "ConfigEntryNotReady"
        /\ poll_connects = 1
        /\ ~poll_did_read

\* C11: a command that found the session entered but not connected makes
\* no further connection attempt and does not call the device operation on
\* that attempt; it ends with ConfigEntryNotReady, which is neither
\* ServiceValidationError nor HomeAssistantError.
C11_CommandNotReady ==
    (Euro /\ cmd_nc_at > 0) =>
        /\ cmd_connects = cmd_nc_at
        /\ cmd_invoked_at < cmd_nc_at
        /\ cpc \in {"exit", "done"}
        /\ cpc = "done" =>
              /\ cresult.kind = "ConfigEntryNotReady"
              /\ cresult.kind \notin
                    {"ServiceValidationError", "HomeAssistantError"}

C11_Witness ==
    /\ Euro /\ cpc = "done" /\ cmd_nc_at = 2 /\ cmd_invoked_at = 1
    /\ cresult.kind = "ConfigEntryNotReady" /\ ~held

\* C12: every poll that was started ends, returning or raising, and has
\* entered the scoped connection at most 3 times when it ends, whatever the
\* device does, a device that answers every connect and read included.
C12_PollTerminates ==
    (Euro /\ ppc # "idle") ~> (ppc = "done" /\ poll_connects <= RETRY_COUNT)

C14_UnclassifiedIsFatal ==
    (Euro /\ fatal_at > 0) =>
        /\ ppc = "done"
        /\ presult.kind = "UpdateFailed"
        /\ presult.cause \notin Retryable \cup {"none"}
        /\ poll_connects = fatal_at

C14_Witness ==
    /\ Euro /\ ppc = "done" /\ fatal_at = RETRY_COUNT
    /\ poll_retry_count = RETRY_COUNT - 1
    /\ presult = Raised("UpdateFailed", "RuntimeError")

\* C15: a poll cancelled at the connect or at the temperature, battery or
\* holiday read ends with the session released, and the stored snapshot is
\* the one from before the poll, also after the scheduler has taken the
\* poll's outcome.
C15_CancelKeepsSnapshot ==
    /\ [](Euro /\ cancelled => data = prev_data)
    /\ [](Euro /\ cancelled /\ ppc \notin {"exit", "except"} =>
            /\ ppc = "done" /\ ~held /\ ~connected
            /\ presult = Raised("CancelledError", "CancelledError"))
    /\ [][Euro /\ cancelled => data' = data]_vars

C15_Witness ==
    /\ Euro /\ ppc = "done" /\ cancelled
    /\ Truthy(battery) /\ Truthy(Get(retrieved_temperatures, "targetTemp"))
    /\ Get(data, "battery") # battery
    /\ ~held

\* C16: in the cometblue coordinator, once three polls in a row have each
\* raised UpdateFailed, failed_update_count is at least 3 and available is
\* false, from whichever state the three polls started.
C16_ThreeFailuresUnavailable ==
    (variant = COMETBLUE /\ consec_failed >= RETRY_COUNT) =>
        /\ failed_update_count >= RETRY_COUNT
        /\ ~available

\* C17: in the cometblue coordinator a poll ended by a malformed-byte error
\* returns the stored snapshot and adds 1 to failed_update_count when the
\* snapshot is non-empty and the count was below 3; otherwise it raises
\* UpdateFailed and leaves the count: from count 0 three such polls are
\* tolerated (counts 1, 2, 3) and the fourth raises.
C17_MalformedTolerated ==
    (variant = COMETBLUE /\ ppc = "done" /\ cb_err = "InvalidByteValueError")
    => IF count_before < RETRY_COUNT /\ DOMAIN prev_data # {}
       THEN /\ presult = Returned(prev_data)
            /\ failed_update_count = count_before + 1
            /\ failed_update_count <= RETRY_COUNT
       ELSE /\ presult = Raised("UpdateFailed", "InvalidByteValueError")
            /\ failed_update_count = count_before

C17_Witness ==
    /\ variant = COMETBLUE /\ ppc = "done"
    /\ cb_err = "InvalidByteValueError"
    /\ count_before = RETRY_COUNT /\ DOMAIN prev_data # {}
    /\ presult.kind = "UpdateFailed"

\* C18: in the cometblue coordinator no step replaces a non-empty value of
\* a snapshot field, battery and holiday included, by an empty one.
C18_FieldsNeverErased ==
    [][variant = COMETBLUE =>
         \A f \in Fields :
            Truthy(Get(data, f)) => Truthy(Get(data', f))]_vars

\* C19: in the cometblue coordinator a command whose session connected and
\* whose device operation completed without error returns the value the
\* operation returned.
C19_CommandReturnsResult ==
    (variant = COMETBLUE /\ cpc = "done" /\ cresult.kind = "return") =>
        cresult.value = cret

\* C20: a poll and a command of one eurotronic_cometblue coordinator are
\* never both inside their `async with self.device` block, and the session
\* stays connected while one of them is at a read or at the operation.
C20_SingleFlight ==
    Euro =>
        /\ ~(ppc \in {"temp", "battery", "holiday", "exit"}
              /\ cpc \in {"invoke", "exit"})
        /\ ppc \in {"temp", "battery", "holiday"} => connected
        /\ cpc = "invoke" => connected

====
